---- MODULE Spec2Model ----
(***************************************************************************)
(* A model of MTGProxyPrinter: the decklist parsers, the fetch / cache /   *)
(* normalise pipeline of the command-line tool (mtg_proxy.py) and of the   *)
(* GUI worker (mtg_proxy_gui.py), and the 3x3 sheet layout of create_pdf.  *)
(*                                                                         *)
(* Text is modelled as a sequence of one-character strings, so that the    *)
(* regular expressions, strip(), lower() and the filename sanitiser act on *)
(* characters as the Python code does.                                     *)
(***************************************************************************)
EXTENDS Integers, Sequences, FiniteSets, TLC

\* Python's None.  Text is a tuple of one-character strings, so this tuple
\* is no text.
None == <<"None">>

(***************************************************************************)
(* Characters and strings                                                  *)
(***************************************************************************)
UpperChars == <<"A","B","C","D","E","F","G","H","I","J","K","L","M",
                "N","O","P","Q","R","S","T","U","V","W","X","Y","Z">>
LowerChars == <<"a","b","c","d","e","f","g","h","i","j","k","l","m",
                "n","o","p","q","r","s","t","u","v","w","x","y","z">>
DigitChars == <<"0","1","2","3","4","5","6","7","8","9">>

IsUpper(c) == \E i \in DOMAIN UpperChars : UpperChars[i] = c
IsLowerC(c) == \E i \in DOMAIN LowerChars : LowerChars[i] = c
IsDigit(c) == \E i \in DOMAIN DigitChars : DigitChars[i] = c
IsSpace(c) == c \in {" ", "\t"}
IsAlnum(c) == IsUpper(c) \/ IsLowerC(c) \/ IsDigit(c)

\* str.lower() on one character
LowerChar(c) ==
    IF IsUpper(c) THEN LowerChars[CHOOSE i \in DOMAIN UpperChars : UpperChars[i] = c]
    ELSE c
\* str.upper() on one character
UpperChar(c) ==
    IF IsLowerC(c) THEN UpperChars[CHOOSE i \in DOMAIN LowerChars : LowerChars[i] = c]
    ELSE c
lower(s) == [i \in DOMAIN s |-> LowerChar(s[i])]
upper(s) == [i \in DOMAIN s |-> UpperChar(s[i])]

DigitVal(c) == (CHOOSE i \in DOMAIN DigitChars : DigitChars[i] = c) - 1

\* int() of a non-empty string of decimal digits
RECURSIVE int(_)
int(s) == IF Len(s) = 0 THEN 0
          ELSE 10 * int(SubSeq(s, 1, Len(s) - 1)) + DigitVal(s[Len(s)])

\* the number of consecutive characters of s, from position i on, that satisfy P
RunLen(s, i, P(_)) ==
    CHOOSE n \in 0..Len(s) :
        /\ \A k \in i..(i + n - 1) : k <= Len(s) /\ P(s[k])
        /\ (i + n > Len(s) \/ ~P(s[i + n]))

\* str.strip()
strip(s) ==
    LET lead == RunLen(s, 1, IsSpace)
        last == IF lead = Len(s) THEN 0
                ELSE CHOOSE k \in 1..Len(s) :
                        /\ ~IsSpace(s[k])
                        /\ \A j \in (k + 1)..Len(s) : IsSpace(s[j])
    IN  IF lead = Len(s) THEN <<>> ELSE SubSeq(s, lead + 1, last)

\* str.rstrip(':')
RECURSIVE rstrip_colon(_)
rstrip_colon(s) ==
    IF Len(s) > 0 /\ s[Len(s)] = ":" THEN rstrip_colon(SubSeq(s, 1, Len(s) - 1))
    ELSE s

\* truthiness of an Optional[str]: neither None nor ''
Truthy(s) == s # None /\ s # <<>>

(***************************************************************************)
(* Decklist parsing                                                        *)
(***************************************************************************)
MOXFIELD_SECTIONS ==
    { <<"d","e","c","k">>,
      <<"s","i","d","e","b","o","a","r","d">>,
      <<"c","o","m","m","a","n","d","e","r">>,
      <<"c","o","m","p","a","n","i","o","n","s">>,
      <<"m","a","y","b","e","b","o","a","r","d">>,
      <<"m","a","i","n","b","o","a","r","d">>,
      <<"c","o","n","s","i","d","e","r","i","n","g">>,
      <<"a","c","q","u","i","r","e","d">> }

Entry(name, quantity, set_code, collector_num) ==
    [name |-> name, quantity |-> quantity,
     set_code |-> set_code, collector_num |-> collector_num]

NoEntry == Entry(None, 0, None, None)

\* The common prefix ^(\d+)x?\s+ of both regular expressions (re.IGNORECASE):
\* the digits, the optional x, and the run of white space after them.
PrefixDigits(s) == RunLen(s, 1, IsDigit)
PrefixX(s) ==
    LET d == PrefixDigits(s)
    IN  IF Len(s) > d /\ LowerChar(s[d + 1]) = "x" THEN 1 ELSE 0
PrefixSpaces(s) == RunLen(s, PrefixDigits(s) + PrefixX(s) + 1, IsSpace)

\* r'^(\d+)x?\s+(.+)$' : the position where group 2 starts, 0 for no match
SimpleMatch(s) ==
    LET p == PrefixDigits(s) + PrefixX(s)
        w == PrefixSpaces(s)
    IN  IF PrefixDigits(s) >= 1 /\ w >= 1
        THEN (IF p + w < Len(s) THEN p + w + 1
              ELSE IF w >= 2 THEN p + w ELSE 0)
        ELSE 0

IsAlpha(c) == IsUpper(c) \/ IsLowerC(c)
NonSpace(c) == ~IsSpace(c)

\* (?:\s+\*[A-Z]+\*)?\s*$ matched from position m of s
TailEnd(s, m) ==
    \/ RunLen(s, m, IsSpace) = Len(s) - m + 1
    \/ \E f \in {RunLen(s, m, IsSpace)} :
         /\ f >= 1
         /\ m + f <= Len(s) /\ s[m + f] = "*"
         /\ \E g \in {RunLen(s, m + f + 1, IsAlpha)} :
              /\ g >= 1
              /\ m + f + 1 + g <= Len(s) /\ s[m + f + 1 + g] = "*"
              /\ RunLen(s, m + f + 2 + g, IsSpace) = Len(s) - (m + f + 1 + g)

\* The tail \s+\(([A-Za-z0-9]+)\)\s+(\S+)(?:\s+\*[A-Z]+\*)?\s*$ matched from
\* position i of s: the positions <<j, k, n, m>> of "(", of ")", of the start
\* of group 4 and of the end of group 4 plus one.  Every repetition is greedy
\* and none can give a character back, so there is at most one such tuple.
TailPositions(s, i) ==
    UNION { UNION { UNION { { <<j, k, n, m>> :
        m \in { x \in {n + RunLen(s, n, NonSpace)} : x > n /\ TailEnd(s, x) } } :
        n \in { x \in {k + 1 + RunLen(s, k + 1, IsSpace)} : x > k + 1 } } :
        k \in { x \in {j + 1 + RunLen(s, j + 1, IsAlnum)} :
                  x > j + 1 /\ x <= Len(s) /\ s[x] = ")" } } :
        j \in { x \in {i + RunLen(s, i, IsSpace)} :
                  x > i /\ x <= Len(s) /\ s[x] = "(" } }

\* the groups of the tail: [ok, set_code (group 3), collector_num (group 4)]
TailMatch(s, i) ==
    LET ps == TailPositions(s, i)
    IN  IF ps = {} THEN [ok |-> FALSE, set_code |-> <<>>, collector_num |-> <<>>]
        ELSE CHOOSE t \in { [ok |-> TRUE,
                             set_code |-> SubSeq(s, q[1] + 1, q[2] - 1),
                             collector_num |-> SubSeq(s, q[3], q[4] - 1)] : q \in ps } : TRUE

\* The candidate (start, end) pairs of group 2, (.+?), of the Moxfield
\* regular expression: \s+ keeps at least one space, the tail must match.
MoxCandidates(s) ==
    LET p == PrefixDigits(s) + PrefixX(s)
        w == PrefixSpaces(s)
    IN  IF PrefixDigits(s) >= 1 /\ w >= 1
        THEN { se \in ((p + 2)..(p + w + 1)) \X (1..Len(s)) :
                 /\ se[1] <= se[2]
                 /\ TailPositions(s, se[2] + 1) # {} }
        ELSE {}

\* The match the backtracking engine finds first: \s+ is greedy (latest
\* start of group 2), (.+?) is lazy (earliest end).
MoxMatch(s) ==
    CHOOSE se \in MoxCandidates(s) :
        \A o \in MoxCandidates(s) : se[1] > o[1] \/ (se[1] = o[1] /\ se[2] <= o[2])

\* mtg_proxy_gui.parse_card_entry
parse_card_entry_gui(line) ==
    LET entry == strip(line)
    IN  IF entry = <<>> \/ entry[1] = "#" THEN NoEntry
        ELSE IF rstrip_colon(lower(entry)) \in MOXFIELD_SECTIONS THEN NoEntry
        ELSE IF MoxCandidates(entry) # {}
        THEN LET se == MoxMatch(entry)
                 t  == TailMatch(entry, se[2] + 1)
             IN  Entry(strip(SubSeq(entry, se[1], se[2])),
                       int(SubSeq(entry, 1, PrefixDigits(entry))),
                       lower(strip(t.set_code)),
                       strip(t.collector_num))
        ELSE IF SimpleMatch(entry) # 0
        THEN Entry(strip(SubSeq(entry, SimpleMatch(entry), Len(entry))),
                   int(SubSeq(entry, 1, PrefixDigits(entry))), None, None)
        ELSE Entry(entry, 1, None, None)

\* mtg_proxy.parse_card_entry: (name, quantity) only
parse_card_entry_cli(line) ==
    LET entry == strip(line)
    IN  IF entry = <<>> \/ entry[1] = "#" THEN NoEntry
        ELSE IF SimpleMatch(entry) # 0
        THEN Entry(strip(SubSeq(entry, SimpleMatch(entry), Len(entry))),
                   int(SubSeq(entry, 1, PrefixDigits(entry))), None, None)
        ELSE Entry(entry, 1, None, None)

(***************************************************************************)
(* The catalogue (Scryfall), as the code sees it: dict-shaped card data    *)
(***************************************************************************)
\* key in dict
Has(d, key) == key \in DOMAIN d
\* dict.get(key, default)
Get(d, key, default) == IF Has(d, key) THEN d[key] ELSE default

\* a card with both renditions the front ends look for first
CardBo ==
    [name |-> <<"B","o">>, set |-> <<"m","3">>, collector_number |-> <<"5">>,
     image_uris |-> [png |-> <<"bo.png">>, large |-> <<"bo.large">>, normal |-> <<"bo.normal">>]]
\* a name with a space and an upper-case set-independent spelling
CardSR ==
    [name |-> <<"S"," ","R">>, set |-> <<"l","e","a">>, collector_number |-> <<"1","a">>,
     image_uris |-> [normal |-> <<"sr.normal">>, small |-> <<"sr.small">>]]
\* a double-faced card: no image_uris of its own
CardFaces ==
    [name |-> <<"D","F">>, set |-> <<"m","3">>, collector_number |-> <<"7">>,
     card_faces |-> << [image_uris |-> [large |-> <<"df.front.large">>]],
                       [image_uris |-> [png |-> <<"df.back.png">>]] >>]
\* a card the catalogue has no image for
CardNoImage ==
    [name |-> <<"B","o">>, set |-> <<"m","3">>, collector_number |-> <<"5">>]
\* card data without the optional keys the code reads with .get(key, default)
CardBare ==
    [image_uris |-> [large |-> <<"bare.large">>]]

Catalog == {CardBo, CardSR, CardFaces, CardNoImage, CardBare}

\* None where the code expects a dict
NoCard == [none |-> TRUE]

\* what a catalogue query may return: a card, or None for any HTTP / network error

LookupResults == Catalog \cup {NoCard}

\* what /cards/{set}/{number} may return: a card of that printing, or None
LookupBySetResults(set_code, collector_number) ==
    { c \in Catalog : /\ Has(c, "set") /\ c.set = set_code
                      /\ Has(c, "collector_number")
                      /\ c.collector_number = collector_number }
    \cup {NoCard}

\* the first key of the precedence list keys that image_uris holds, or None
FirstRendition(image_uris, keys) ==
    IF \E i \in DOMAIN keys : Has(image_uris, keys[i])
    THEN image_uris[keys[CHOOSE i \in DOMAIN keys :
                            /\ Has(image_uris, keys[i])
                            /\ \A j \in 1..(i - 1) : ~Has(image_uris, keys[j])]]
    ELSE None

\* get_image_url, with the precedence list of the front end
get_image_url_keys(card_data, keys) ==
    LET own == IF Has(card_data, "image_uris")
               THEN FirstRendition(card_data.image_uris, keys) ELSE None
    IN  IF own # None THEN own
        ELSE IF Has(card_data, "card_faces") /\ Len(card_data.card_faces) > 0
        THEN (IF Has(card_data.card_faces[1], "image_uris")
              THEN FirstRendition(card_data.card_faces[1].image_uris, keys)
              ELSE None)
        ELSE None

\* mtg_proxy.get_image_url
get_image_url_cli(card_data) ==
    get_image_url_keys(card_data, <<"png", "large", "normal">>)

\* mtg_proxy_gui.get_image_url(card_data, size)
get_image_url_gui(card_data, size) ==
    get_image_url_keys(card_data, <<size, "large", "normal", "small">>)

(***************************************************************************)
(* The image cache                                                         *)
(***************************************************************************)
SanitizeChar(c) ==
    IF c = " " THEN "_"
    ELSE IF c \in {"<", ">", ":", "\"", "/", "\\", "|", "?", "*"} THEN "_"
    ELSE c

\* sanitize_filename: lower(), ' ' -> '_', then [<>:"/\|?*] -> '_'
sanitize_filename(name) == [i \in DOMAIN name |-> SanitizeChar(LowerChar(name[i]))]

PngSuffix == <<".","p","n","g">>

\* the cache file download_image uses (the CLI passes no printing)
cache_filename(card_name, set_code, collector_number) ==
    IF Truthy(set_code) /\ Truthy(collector_number)
    THEN sanitize_filename(card_name \o <<"_">> \o set_code \o <<"_">> \o collector_number)
         \o PngSuffix
    ELSE sanitize_filename(card_name) \o PngSuffix

\* What requests.get(url) may do: fail (RequestException), or answer with a body,
\* which is an image or something no image decoder accepts.
NetOutcomes == {"fail", "image", "garbage"}
Body(url, net) == [url |-> url, decodable |-> net = "image"]

\* A file left in the cache directory by an earlier run.
StaleBody == [url |-> <<"stale">>, decodable |-> TRUE]

\* download_image mutated: the cache is not consulted
download_image_always_fetch(cache, url, card_name, use_cache, set_code, collector_number, net) ==
    LET cache_path == cache_filename(card_name, set_code, collector_number)
    IN  IF net = "fail"
        THEN [path |-> None, cache |-> cache, fetched |-> TRUE]
        ELSE [path |-> cache_path,
              cache |-> [f \in DOMAIN cache \cup {cache_path} |->
                            IF f = cache_path THEN Body(url, net) ELSE cache[f]],
              fetched |-> TRUE]

\* download_image mutated: the cache file is opened for writing before the fetch
download_image_open_first(cache, url, card_name, use_cache, set_code, collector_number, net) ==
    LET cache_path == cache_filename(card_name, set_code, collector_number)
    IN  IF use_cache /\ cache_path \in DOMAIN cache
        THEN [path |-> cache_path, cache |-> cache, fetched |-> FALSE]
        ELSE [path |-> IF net = "fail" THEN None ELSE cache_path,
              cache |-> [f \in DOMAIN cache \cup {cache_path} |->
                            IF f = cache_path
                            THEN (IF net = "fail" THEN [url |-> <<>>, decodable |-> FALSE]
                                  ELSE Body(url, net))
                            ELSE cache[f]],
              fetched |-> TRUE]

\* download_image: [path returned, the cache afterwards, whether the network was used]
download_image(cache, url, card_name, use_cache, set_code, collector_number, net) ==
    LET cache_path == cache_filename(card_name, set_code, collector_number)
    IN  IF use_cache /\ cache_path \in DOMAIN cache
        THEN [path |-> cache_path, cache |-> cache, fetched |-> FALSE]
        ELSE IF net = "fail"
        THEN [path |-> None, cache |-> cache, fetched |-> TRUE]
        ELSE [path |-> cache_path,
              cache |-> [f \in DOMAIN cache \cup {cache_path} |->
                            IF f = cache_path THEN Body(url, net) ELSE cache[f]],
              fetched |-> TRUE]

\* resize_card_image succeeds only on a file PIL can decode; the image it
\* returns is identified by the file's body
CanDecode(cache, path) == cache[path].decodable
resize_card_image(cache, path) == [src |-> cache[path]]

(***************************************************************************)
(* State                                                                   *)
(***************************************************************************)
VARIABLES
    frontend,     \* "cli" (mtg_proxy.py) or "gui" (mtg_proxy_gui.py)
    \* --- parsing
    lines,        \* the decklist text, one entry per line
    pos,          \* the line the parsing loop is at
    parsed,       \* what parse_card_entry returned for the line just read
    cards,        \* the list the parsing loop builds
    \* --- the run: main() of the CLI, fetch_cards_thread / fetch_complete of the GUI
    card_entries, \* the parsed requests the run works through
    use_cache,    \* not args.no_cache (the GUI never passes use_cache: True)
    pc,           \* where the run is
    idx,          \* the request of card_entries the loop is at (1-based)
    card_data,    \* the catalogue's answer for that request
    image_url,    \* the rendition chosen for it
    image_path,   \* the cache file download_image returned
    pdf_image,    \* the image resize_card_image returned
    copies,       \* iterations done of the "for _ in range(quantity)" loop
    cache,        \* the cache directory: file name -> body
    card_images,  \* processed_cards (CLI) / self.card_images (GUI)
    errors,       \* the errors list (GUI) / the names in the warnings printed (CLI)
    log,          \* the sleeps, network requests and resize calls made, in
                  \* order, each request with how it ended
    results,      \* how each finished request ended
    status,       \* what the run reported at its end
    export_btn,   \* GUI: the Export PDF button is enabled
    fetch_btn,    \* GUI: the Fetch Cards button is enabled
    \* --- create_pdf
    pdf_cards,    \* its argument
    card_index,   \* its loop variables
    row,
    col,
    page,         \* showPage() calls so far = index of the page being drawn
    drawn,        \* the drawImage calls made, with the page each landed on
    pdf_pages,    \* pages of the saved document, 0 while nothing is saved
    \* --- the tabular import: parse_moxfield_csv and _load_csv_content
    csv_header,   \* the column names of the first line of the file
    csv_rows,     \* the data rows, each the list of its fields
    csv_pos,      \* the row the "for row in reader" loop is at
    csv_cards,    \* the list parse_moxfield_csv builds
    csv_status,   \* how the import ended
    decklist_text,\* the lines of the decklist text area
    \* --- resize_card_image on its own
    img_size,     \* (width, height) of the image opened
    dpi,          \* the dpi argument
    resized,      \* the sizes and offsets resize_card_image computed
    \* --- the cache file names of two resolved cards
    key_a,        \* (actual_name, actual_set, actual_num) of the first
    key_b,        \* ... and of the second
    file_a,       \* the file name download_image computes for the first
    file_b        \* ... and for the second

parseVars == <<lines, pos, parsed, cards>>
reqVars   == <<card_data, image_url, image_path, pdf_image, copies>>
runVars   == <<card_entries, use_cache, pc, idx, reqVars, cache, card_images,
               errors, log, results, status, export_btn, fetch_btn>>
pdfVars   == <<pdf_cards, card_index, row, col, page, drawn, pdf_pages>>
runVarsButPc == <<card_entries, use_cache, idx, reqVars, cache, card_images,
                  errors, log, results, status, export_btn, fetch_btn>>
csvVars   == <<csv_header, csv_rows, csv_pos, csv_cards, csv_status, decklist_text>>
imgVars   == <<img_size, dpi, resized>>
keyVars   == <<key_a, key_b, file_a, file_b>>
vars == <<frontend, parseVars, runVars, pdfVars, csvVars, imgVars, keyVars>>

(***************************************************************************)
(* Program constants                                                       *)
(***************************************************************************)
CARDS_PER_ROW == 3
CARDS_PER_COL == 3
CARDS_PER_PAGE == CARDS_PER_ROW * CARDS_PER_COL
\* CARD_WIDTH_INCHES * 72 and CARD_HEIGHT_INCHES * 72, in points
card_width_pts == 180
card_height_pts == 252
\* reportlab.lib.pagesizes.LETTER, in points
page_width == 612
page_height == 792
grid_width == CARDS_PER_ROW * card_width_pts
grid_height == CARDS_PER_COL * card_height_pts
margin_x == (page_width - grid_width) \div 2
margin_y == (page_height - grid_height) \div 2

(***************************************************************************)
(* Idle values of the parts a specification does not exercise              *)
(***************************************************************************)
ParseIdle ==
    /\ lines = <<>>
    /\ pos = 1
    /\ parsed = [name |-> None, quantity |-> 0, set_code |-> None, collector_num |-> None]
    /\ cards = <<>>

CsvIdle ==
    /\ csv_header = <<>>
    /\ csv_rows = <<>>
    /\ csv_pos = 1
    /\ csv_cards = <<>>
    /\ csv_status = "none"
    /\ decklist_text = <<>>

ImgIdle ==
    /\ img_size = <<1, 1>>
    /\ dpi = 1
    /\ resized = [done |-> FALSE]

KeysIdle ==
    /\ key_a = <<None, None, None>>
    /\ key_b = <<None, None, None>>
    /\ file_a = None
    /\ file_b = None

ReqIdle ==
    /\ card_data = NoCard
    /\ image_url = None
    /\ image_path = None
    /\ pdf_image = None
    /\ copies = 0

RunIdle ==
    /\ card_entries = <<>>
    /\ use_cache = TRUE
    /\ pc = "idle"
    /\ idx = 1
    /\ ReqIdle
    /\ cache = <<>>
    /\ card_images = <<>>
    /\ errors = <<>>
    /\ log = <<>>
    /\ results = <<>>
    /\ status = "none"
    /\ export_btn = FALSE
    /\ fetch_btn = FALSE

PdfIdle ==
    /\ pdf_cards = <<>>
    /\ card_index = 0
    /\ row = 0
    /\ col = 0
    /\ page = 0
    /\ drawn = <<>>
    /\ pdf_pages = 0

(***************************************************************************)
(* The parsing loops                                                       *)
(***************************************************************************)
MaxLines == 2

\* "4x Bo", "1 S R (MH3) 532", "2 Bo (m3) 1a *F*", "12X S R", "0 Bo",
\* "Bo", "-1 Bo", "# c", "", "  ", "Sideboard", "deck:", "3 deck",
\* "1   (M3) 5", "1 Bo (M-3) 5"
LineSet ==
    { <<"4","x"," ","B","o">>,
      <<"1"," ","S"," ","R"," ","(","M","H","3",")"," ","5","3","2">>,
      <<"2"," ","B","o"," ","(","m","3",")"," ","1","a"," ","*","F","*">>,
      <<"1","2","X"," ","S"," ","R">>,
      <<"0"," ","B","o">>,
      <<"B","o">>,
      <<"-","1"," ","B","o">>,
      <<"#"," ","c">>,
      <<>>,
      <<" "," ">>,
      <<"S","i","d","e","b","o","a","r","d">>,
      <<"d","e","c","k",":">>,
      <<"3"," ","d","e","c","k">>,
      <<"1"," "," "," ","(","M","3",")"," ","5">>,
      <<"1"," ","B","o"," ","(","M","-","3",")"," ","5">> }

RECURSIVE SeqsUpTo(_, _)
SeqsUpTo(S, n) ==
    IF n = 0 THEN {<<>>}
    ELSE LET shorter == SeqsUpTo(S, n - 1)
         IN  shorter \cup { Append(q, x) : q \in {r \in shorter : Len(r) = n - 1}, x \in S }

ParseInit ==
    /\ lines \in SeqsUpTo(LineSet, MaxLines)
    /\ pos = 1
    /\ parsed = NoEntry
    /\ cards = <<>>

\* one iteration of MTGProxyGUI.parse_decklist
ParseLineGui ==
    /\ frontend = "gui"
    /\ pos <= Len(lines)
    /\ LET r == parse_card_entry_gui(lines[pos])
       IN  /\ parsed' = r
           /\ cards' = IF Truthy(r.name) THEN Append(cards, r) ELSE cards
    /\ pos' = pos + 1
    /\ UNCHANGED <<frontend, csvVars, imgVars, keyVars, lines, runVars, pdfVars>>

\* one iteration of load_decklist (and of the loop over args.cards in main)
ParseLineCli ==
    /\ frontend = "cli"
    /\ pos <= Len(lines)
    /\ LET r == parse_card_entry_cli(lines[pos])
       IN  /\ parsed' = r
           /\ cards' = IF Truthy(r.name) THEN Append(cards, r) ELSE cards
    /\ pos' = pos + 1
    /\ UNCHANGED <<frontend, csvVars, imgVars, keyVars, lines, runVars, pdfVars>>

InitParse ==
    /\ frontend \in {"cli", "gui"}
    /\ ParseInit
    /\ RunIdle
    /\ PdfIdle
    /\ CsvIdle
    /\ ImgIdle
    /\ KeysIdle

NextParse == ParseLineGui \/ ParseLineCli

SpecParse == InitParse /\ [][NextParse]_vars

(***************************************************************************)
(* The tabular import: parse_moxfield_csv, load_moxfield_csv and           *)
(* _load_csv_content of mtg_proxy_gui.py                                   *)
(***************************************************************************)
\* the position of the column key in the header (the header has it once)
ColumnOf(header, key) == CHOOSE i \in DOMAIN header : header[i] = key

\* csv.DictReader: the row as a dict over the header's columns; a row with
\* fewer fields than the header has None (restval) for the missing columns
DictRow(header, fields) ==
    [key \in {header[i] : i \in DOMAIN header} |->
        IF ColumnOf(header, key) <= Len(fields)
        THEN fields[ColumnOf(header, key)] ELSE None]

\* int(str): white space around, an optional sign, decimal digits;
\* anything else is a ValueError (ok = FALSE)
py_int(s) ==
    LET t == strip(s)
        signed == Len(t) > 0 /\ t[1] \in {"-", "+"}
        d == IF signed THEN SubSeq(t, 2, Len(t)) ELSE t
    IN  IF Len(d) > 0 /\ \A i \in DOMAIN d : IsDigit(d[i])
        THEN [ok |-> TRUE,
              value |-> IF signed /\ t[1] = "-" THEN 0 - int(d) ELSE int(d)]
        ELSE [ok |-> FALSE, value |-> 0]

\* str(int)
RECURSIVE str_nat(_)
str_nat(n) ==
    IF n < 10 THEN <<DigitChars[n + 1]>>
    ELSE str_nat(n \div 10) \o <<DigitChars[(n % 10) + 1]>>
str_int(n) == IF n < 0 THEN <<"-">> \o str_nat(0 - n) ELSE str_nat(n)

\* s or None
OrNone(s) == IF s = <<>> THEN None ELSE s

\* the body of "for row in reader": what the row does to the import.
\*   append: the tuple is appended;  skip: continue (empty name, or the
\*   ValueError of int() caught);  raise: an exception the except clause
\*   does not name (None.strip() is an AttributeError, int(None) a TypeError)
parse_csv_row(csv_row) ==
    LET raw_name == Get(csv_row, "Name", <<>>)
        raw_qty  == Get(csv_row, "Count", Get(csv_row, "Quantity", <<"1">>))
        raw_set  == Get(csv_row, "Edition", Get(csv_row, "Set", <<>>))
        raw_num  == Get(csv_row, "Collector Number", Get(csv_row, "Number", <<>>))
        str_num  == IF raw_num = None THEN <<"N", "o", "n", "e">> ELSE raw_num
    IN  IF raw_name = None THEN [kind |-> "raise", entry |-> NoEntry]
        ELSE IF strip(raw_name) = <<>> THEN [kind |-> "skip", entry |-> NoEntry]
        ELSE IF raw_qty = None THEN [kind |-> "raise", entry |-> NoEntry]
        ELSE IF ~py_int(raw_qty).ok THEN [kind |-> "skip", entry |-> NoEntry]
        ELSE IF raw_set = None THEN [kind |-> "raise", entry |-> NoEntry]
        ELSE [kind |-> "append",
              entry |-> Entry(strip(raw_name), py_int(raw_qty).value,
                              OrNone(lower(strip(raw_set))),
                              OrNone(strip(str_num)))]

\* the line _load_csv_content writes for one imported card
csv_text_line(e) ==
    IF Truthy(e.set_code) /\ Truthy(e.collector_num)
    THEN str_int(e.quantity) \o <<" ">> \o e.name \o <<" ", "(">> \o
         upper(e.set_code) \o <<")", " ">> \o e.collector_num
    ELSE str_int(e.quantity) \o <<"x", " ">> \o e.name

\* the text _load_csv_content puts in the decklist area: the comment line,
\* which ends in a newline of its own, then one line per card
csv_text(the_cards) ==
    << <<"#", " ", "I", "m", "p", "o", "r", "t", "e", "d">>, <<>> >> \o
    [i \in DOMAIN the_cards |-> csv_text_line(the_cards[i])]

MaxRows == 2

T_Bo == <<"B", "o">>
T_SR == <<"S", " ", "R">>

\* the headers of a Moxfield export, in its two column namings
CsvHeaders ==
    { <<"Count", "Name", "Edition", "Collector Number">>,
      <<"Quantity", "Name", "Set", "Number">> }

\* data rows: well formed, with a count that is no number, with no name,
\* and with fewer fields than the header
CsvRowSet ==
    { << <<"4">>, T_Bo, <<"m", "3">>, <<"5">> >>,
      << <<"1">>, T_SR, <<>>, <<>> >>,
      << <<" ", "3">>, <<" ", "B", "o", " ">>, <<"M", "3">>, <<"5">> >>,
      << <<"0">>, T_Bo, <<>>, <<>> >>,
      << <<"-", "1">>, T_Bo, <<>>, <<>> >>,
      << <<"x">>, T_SR, <<"m", "3">>, <<"5">> >>,
      << <<>>, T_Bo, <<"m", "3">>, <<"5">> >>,
      << <<"2">>, <<>>, <<"m", "3">>, <<"5">> >>,
      << <<"2">> >>,
      << <<"2">>, T_SR >>,
      << <<"2">>, T_SR, <<"m", "3">> >> }

CsvInit ==
    /\ csv_header \in CsvHeaders
    /\ csv_rows \in SeqsUpTo(CsvRowSet, MaxRows)
    /\ csv_pos = 1
    /\ csv_cards = <<>>
    /\ csv_status = "reading"
    /\ decklist_text = <<>>

\* one iteration of "for row in reader"; an exception that is not caught
\* leaves parse_moxfield_csv and is reported by load_moxfield_csv's handler
\* ("Failed to load CSV"), the decklist area untouched
CsvRow ==
    /\ csv_status = "reading"
    /\ csv_pos <= Len(csv_rows)
    /\ LET r == parse_csv_row(DictRow(csv_header, csv_rows[csv_pos]))
       IN  /\ csv_cards' = IF r.kind = "append" THEN Append(csv_cards, r.entry)
                           ELSE csv_cards
           /\ csv_status' = IF r.kind = "raise" THEN "failed_to_load" ELSE "reading"
    /\ csv_pos' = csv_pos + 1
    /\ UNCHANGED <<frontend, parseVars, runVars, pdfVars, imgVars, keyVars,
                   csv_header, csv_rows, decklist_text>>

\* return cards, and the rest of _load_csv_content
CsvLoaded ==
    /\ csv_status = "reading"
    /\ csv_pos > Len(csv_rows)
    /\ IF csv_cards = <<>>
       THEN /\ csv_status' = "no_cards_found"
            /\ UNCHANGED decklist_text
       ELSE /\ csv_status' = "loaded"
            /\ decklist_text' = csv_text(csv_cards)
    /\ UNCHANGED <<frontend, parseVars, runVars, pdfVars, imgVars, keyVars,
                   csv_header, csv_rows, csv_pos, csv_cards>>

InitCsv ==
    /\ frontend = "gui"
    /\ ParseIdle
    /\ RunIdle
    /\ PdfIdle
    /\ ImgIdle
    /\ KeysIdle
    /\ CsvInit

NextCsv == CsvRow \/ CsvLoaded

SpecCsv == InitCsv /\ [][NextCsv]_vars

(***************************************************************************)
(* resize_card_image (the same code in both files): the sizes it computes  *)
(***************************************************************************)
DEFAULT_DPI == 300

\* int(CARD_WIDTH_INCHES * dpi), int(CARD_HEIGHT_INCHES * dpi): 2.5 * dpi and
\* 3.5 * dpi are exact in floating point, int() drops the half
target_width(d) == (5 * d) \div 2
target_height(d) == (7 * d) \div 2

\* img_ratio > target_ratio: the two quotients are correctly rounded, and two
\* ratios of sizes this small that differ at all differ by far more than a
\* rounding error, so the comparison is that of the exact ratios
WiderThanTarget(w, h, d) == w * target_height(d) > target_width(d) * h

\* int(x) of a floating-point result x whose exact value is num / den.  x is
\* off the exact value by a rounding error at most, which int() shows only
\* when the exact value is a whole number and x fell just below it.
IntOfFloat(num, den) ==
    {num \div den} \cup (IF num % den = 0 THEN {(num \div den) - 1} ELSE {})

\* the (new_width, new_height) the image may be scaled to
ScaledSizes(w, h, d) ==
    IF WiderThanTarget(w, h, d)
    THEN { <<nw, target_height(d)>> : nw \in IntOfFloat(target_height(d) * w, h) }
    ELSE { <<target_width(d), nh>> : nh \in IntOfFloat(target_width(d) * h, w) }

\* the crop box and the size of the image returned, for a scaled size
crop_box(scaled, d) ==
    LET left == (scaled[1] - target_width(d)) \div 2
        top  == (scaled[2] - target_height(d)) \div 2
    IN  [done |-> TRUE,
         new_width |-> scaled[1], new_height |-> scaled[2],
         left |-> left, top |-> top,
         width |-> (left + target_width(d)) - left,
         height |-> (top + target_height(d)) - top]

MaxSide == 6
MaxDpi == 4

\* sizes of source images: every small size, and sizes of real card scans
ImageSizes ==
    ((1..MaxSide) \X (1..MaxSide)) \cup {<<745, 1040>>, <<488, 680>>, <<327, 458>>}

\* --dpi of the CLI; the GUI never passes dpi
DpiValues(fe) ==
    IF fe = "gui" THEN {DEFAULT_DPI} ELSE (1..MaxDpi) \cup {131, DEFAULT_DPI}

ImgInit ==
    /\ img_size \in ImageSizes
    /\ dpi \in DpiValues(frontend)
    /\ resized = [done |-> FALSE]

\* resize_card_image(image_path, dpi) on an image of size img_size
ResizeImage ==
    /\ ~resized.done
    /\ \E scaled \in ScaledSizes(img_size[1], img_size[2], dpi) :
         resized' = crop_box(scaled, dpi)
    /\ UNCHANGED <<frontend, parseVars, runVars, pdfVars, csvVars, keyVars, img_size, dpi>>

InitResize ==
    /\ frontend \in {"cli", "gui"}
    /\ ParseIdle
    /\ RunIdle
    /\ PdfIdle
    /\ CsvIdle
    /\ ImgInit
    /\ KeysIdle

NextResize == ResizeImage

SpecResize == InitResize /\ [][NextResize]_vars

(***************************************************************************)
(* The cache file names of two cards, as download_image computes them      *)
(***************************************************************************)
\* resolved names: two that differ in a character sanitize_filename rewrites
KeyNames == { <<"B", "o">>, <<"S", " ", "R">>, <<"S", ":", "R">>, <<"S">> }
\* set codes and collector numbers the catalogue or the request may give
KeySets == { None, <<"m", "3">>, <<"l", "e", "a">> }
KeyNums == { None, <<"5">>, <<"1", "a">> }

\* (actual_name, actual_set, actual_num) of a resolved card
CardKeys == KeyNames \X KeySets \X KeyNums

\* the file download_image is made to use for a resolved card: the GUI passes
\* the printing, the CLI's download_image has the name only
filename_of(fe, key) ==
    IF fe = "gui" THEN cache_filename(key[1], key[2], key[3])
    ELSE cache_filename(key[1], None, None)

KeysInit ==
    /\ key_a \in CardKeys
    /\ key_b \in CardKeys
    /\ file_a = None
    /\ file_b = None

\* download_image computes the cache path of both cards
ComputeFilenames ==
    /\ file_a = None
    /\ file_a' = filename_of(frontend, key_a)
    /\ file_b' = filename_of(frontend, key_b)
    /\ UNCHANGED <<frontend, parseVars, runVars, pdfVars, csvVars, imgVars, key_a, key_b>>

InitKeys ==
    /\ frontend \in {"cli", "gui"}
    /\ ParseIdle
    /\ RunIdle
    /\ PdfIdle
    /\ CsvIdle
    /\ ImgIdle
    /\ KeysInit

NextKeys == ComputeFilenames

SpecKeys == InitKeys /\ [][NextKeys]_vars

(***************************************************************************)
(* The run: main() lines 283-321 of mtg_proxy.py, and fetch_cards_thread,  *)
(* fetch_complete and export_pdf of mtg_proxy_gui.py                       *)
(***************************************************************************)
MaxDeck == 2
MaxQty == 2

ReqNames == { <<"B","o">>, <<"s"," ","r">> }

\* what the front end's parser can hand to the run: the CLI parser never
\* yields a printing
Requests(fe) ==
    { Entry(n, q, None, None) : n \in ReqNames, q \in 0..MaxQty }
    \cup (IF fe = "gui"
          THEN { Entry(n, q, <<"m","3">>, <<"5">>) : n \in ReqNames, q \in 0..MaxQty }
          ELSE {})

\* the cache directory as earlier runs may have left it
InitialCaches(fe) ==
    LET f == IF fe = "gui"
             THEN cache_filename(CardBo.name, CardBo.set, CardBo.collector_number)
             ELSE cache_filename(CardBo.name, None, None)
    IN  { <<>>, [x \in {f} |-> StaleBody] }

RunInit ==
    /\ card_entries \in (SeqsUpTo(Requests(frontend), MaxDeck) \ {<<>>})
    /\ use_cache \in (IF frontend = "gui" THEN {TRUE} ELSE BOOLEAN)
    /\ pc = "loop"
    /\ idx = 1
    /\ ReqIdle
    /\ cache \in InitialCaches(frontend)
    /\ card_images = <<>>
    /\ errors = <<>>
    /\ log = <<>>
    /\ results = <<>>
    /\ status = "none"
    /\ export_btn = FALSE
    /\ fetch_btn = FALSE

Cur == card_entries[idx]
actual_name == Get(card_data, "name", Cur.name)
actual_set == Get(card_data, "set", Cur.set_code)
actual_num == Get(card_data, "collector_number", Cur.collector_num)

\* record_error mutated: the failure is swallowed
record_error_dropped(errs, name) == errs

\* errors.append(name) in the GUI; the warning naming the card in the CLI
record_error(errs, name) == Append(errs, name)

\* the name a failed request is reported under, by the stage it failed at
reported_name(fe, stage, card_name, resolved_name) ==
    IF fe = "gui" THEN card_name
    ELSE IF stage = "not_found" THEN card_name
    ELSE resolved_name

\* the request failed at `stage`: record it and go on with the next request
FailRequest(stage, resolved_name) ==
    /\ errors' = record_error(errors, reported_name(frontend, stage, Cur.name, resolved_name))
    /\ results' = Append(results, [stage |-> stage])
    /\ idx' = idx + 1
    /\ pc' = "loop"
    /\ card_data' = NoCard
    /\ image_url' = None
    /\ image_path' = None
    /\ pdf_image' = None
    /\ copies' = 0

\* top of the for loop: the status update and time.sleep(0.1)
BeginRequest ==
    /\ pc = "loop"
    /\ idx <= Len(card_entries)
    /\ log' = Append(log, <<"sleep">>)
    /\ pc' = IF frontend = "gui" /\ Truthy(Cur.set_code) /\ Truthy(Cur.collector_num)
             THEN "by_set" ELSE "by_name"
    /\ UNCHANGED <<frontend, csvVars, imgVars, keyVars, parseVars, pdfVars, card_entries, use_cache, idx, reqVars,
                   cache, card_images, errors, results, status, export_btn, fetch_btn>>

\* after_by_set mutated: the name lookup is made whatever the printing lookup gave
after_by_set_always_by_name(r) == "by_name"

\* "if not card_data:" after the printing lookup: fall back to the name lookup
after_by_set(r) == IF r = NoCard THEN "by_name" ELSE "image_url"

\* GUI: card_data = fetch_card_by_set(set_code, collector_num)
FetchBySet ==
    /\ pc = "by_set"
    /\ \E r \in LookupBySetResults(Cur.set_code, Cur.collector_num) :
         /\ card_data' = r
         /\ pc' = after_by_set(r)
         /\ log' = Append(log, <<"by_set", Cur.set_code, Cur.collector_num, r # NoCard>>)
    /\ UNCHANGED <<frontend, csvVars, imgVars, keyVars, parseVars, pdfVars, card_entries, use_cache, idx,
                   image_url, image_path, pdf_image, copies,
                   cache, card_images, errors, results, status, export_btn, fetch_btn>>

\* card_data = fetch_card_data(card_name), and the "if not card_data" after it
FetchByName ==
    /\ pc = "by_name"
    /\ \E r \in LookupResults :
         /\ log' = Append(log, <<"by_name", Cur.name, r # NoCard>>)
         /\ IF r = NoCard
            THEN /\ FailRequest("not_found", Cur.name)
                 /\ UNCHANGED <<cache, card_images>>
            ELSE /\ card_data' = r
                 /\ pc' = "image_url"
                 /\ UNCHANGED <<idx, image_url, image_path, pdf_image, copies,
                                cache, card_images, errors, results>>
    /\ UNCHANGED <<frontend, csvVars, imgVars, keyVars, parseVars, pdfVars, card_entries, use_cache,
                   status, export_btn, fetch_btn>>

\* image_url = get_image_url(card_data), and the "if not image_url" after it
ChooseImage ==
    /\ pc = "image_url"
    /\ LET url == IF frontend = "gui" THEN get_image_url_gui(card_data, "large")
                  ELSE get_image_url_cli(card_data)
       IN  IF url = None
           THEN /\ FailRequest("no_image", actual_name)
           ELSE /\ image_url' = url
                /\ pc' = "download"
                /\ UNCHANGED <<idx, card_data, image_path, pdf_image, copies,
                               errors, results>>
    /\ UNCHANGED <<frontend, csvVars, imgVars, keyVars, parseVars, pdfVars, card_entries, use_cache,
                   cache, card_images, log, status, export_btn, fetch_btn>>

\* image_path = download_image(...), and the "if not image_path" after it
Download ==
    /\ pc = "download"
    /\ \E net \in NetOutcomes :
         LET d == IF frontend = "gui"
                  THEN download_image(cache, image_url, actual_name, TRUE,
                                      actual_set, actual_num, net)
                  ELSE download_image(cache, image_url, actual_name, use_cache,
                                      None, None, net)
         IN  /\ cache' = d.cache
             /\ log' = IF d.fetched
                        THEN Append(log, <<"get", image_url, net,
                                           IF frontend = "gui"
                                           THEN cache_filename(actual_name, actual_set, actual_num)
                                           ELSE cache_filename(actual_name, None, None)>>)
                        ELSE log
             /\ IF d.path = None
                THEN FailRequest("download", actual_name)
                ELSE /\ image_path' = d.path
                     /\ pc' = "resize"
                     /\ UNCHANGED <<idx, card_data, image_url, pdf_image, copies,
                                    errors, results>>
    /\ UNCHANGED <<frontend, csvVars, imgVars, keyVars, parseVars, pdfVars, card_entries, use_cache,
                   card_images, status, export_btn, fetch_btn>>

\* resize_card_image(image_path): Image.open raises on a file that is no
\* image, and nothing on the way up catches it
Resize ==
    /\ pc = "resize"
    /\ log' = Append(log, <<"resize", image_path>>)
    /\ IF CanDecode(cache, image_path)
       THEN /\ pdf_image' = resize_card_image(cache, image_path)
            /\ copies' = 0
            /\ pc' = "append"
            /\ UNCHANGED <<results, status>>
       ELSE /\ pc' = "crashed"
            /\ results' = Append(results, [stage |-> "exception"])
            /\ status' = "traceback"
            /\ UNCHANGED <<pdf_image, copies>>
    /\ UNCHANGED <<frontend, csvVars, imgVars, keyVars, parseVars, pdfVars, card_entries, use_cache, idx,
                   card_data, image_url, image_path,
                   cache, card_images, errors, export_btn, fetch_btn>>

\* AppendCopy mutated: the image is appended once, whatever the quantity
AppendCopy_once ==
    /\ pc = "append"
    /\ copies < Cur.quantity
    /\ card_images' = Append(card_images, [name |-> actual_name, img |-> pdf_image])
    /\ copies' = Cur.quantity
    /\ UNCHANGED <<frontend, csvVars, imgVars, keyVars, parseVars, pdfVars, card_entries, use_cache, pc, idx,
                   card_data, image_url, image_path, pdf_image,
                   cache, errors, log, results, status, export_btn, fetch_btn>>

\* one iteration of "for _ in range(quantity)": append (actual_name, image)
AppendCopy ==
    /\ pc = "append"
    /\ copies < Cur.quantity
    /\ card_images' = Append(card_images, [name |-> actual_name, img |-> pdf_image])
    /\ copies' = copies + 1
    /\ UNCHANGED <<frontend, csvVars, imgVars, keyVars, parseVars, pdfVars, card_entries, use_cache, pc, idx,
                   card_data, image_url, image_path, pdf_image,
                   cache, errors, log, results, status, export_btn, fetch_btn>>

\* the quantity loop is over: on to the next request
EndRequest ==
    /\ pc = "append"
    /\ copies >= Cur.quantity
    /\ results' = Append(results, [stage |-> "ok", name |-> actual_name, img |-> pdf_image])
    /\ idx' = idx + 1
    /\ pc' = "loop"
    /\ card_data' = NoCard
    /\ image_url' = None
    /\ image_path' = None
    /\ pdf_image' = None
    /\ copies' = 0
    /\ UNCHANGED <<frontend, csvVars, imgVars, keyVars, parseVars, pdfVars, card_entries, use_cache,
                   cache, card_images, errors, log, status, export_btn, fetch_btn>>

(***************************************************************************)
(* create_pdf (the same code in both files)                                *)
(***************************************************************************)
\* cell_x mutated: the grid starts at the left edge of the page
cell_x_no_margin(c) == c * card_width_pts

\* x = margin_x + col * card_width_pts
cell_x(c) == margin_x + c * card_width_pts
\* y = page_height - margin_y - (row + 1) * card_height_pts
cell_y(r) == page_height - margin_y - (r + 1) * card_height_pts

\* next_cell mutated: the row is not advanced at the end of a row
next_cell_same_row(r, c) ==
    IF c + 1 < CARDS_PER_ROW THEN <<r, c + 1>> ELSE <<r, 0>>

\* the (row, col) the nested for loops reach after the cell (r, c)
next_cell(r, c) ==
    IF c + 1 < CARDS_PER_ROW THEN <<r, c + 1>> ELSE <<r + 1, 0>>

\* the locals of create_pdf on entry: card_index = 0, the first page open;
\* at is the position in the loops: "cell", "page_end" or "saved"
pdf_start(the_cards) ==
    [pdf_cards |-> the_cards, card_index |-> 0, row |-> 0, col |-> 0,
     page |-> 0, drawn |-> <<>>, pdf_pages |-> 0, at |-> "cell"]

\* loop body: draw cards[card_index] in the cell (row, col), card_index += 1
draw_card(st) ==
    [st EXCEPT !.drawn = Append(@, [page |-> st.page, row |-> st.row, col |-> st.col,
                                    x |-> cell_x(st.col), y |-> cell_y(st.row),
                                    width |-> card_width_pts,
                                    height |-> card_height_pts,
                                    card |-> st.pdf_cards[st.card_index + 1]]),
               !.card_index = @ + 1,
               !.row = next_cell(st.row, st.col)[1],
               !.col = next_cell(st.row, st.col)[2],
               !.at = IF next_cell(st.row, st.col)[1] >= CARDS_PER_COL
                      THEN "page_end" ELSE "cell"]

\* "if card_index >= total_cards: break", in every remaining row of the page
break_rows(st) ==
    [st EXCEPT !.row = CARDS_PER_COL, !.col = 0, !.at = "page_end"]

\* show_page mutated: the next page goes on from the row the last one ended at
show_page_no_reset(st) ==
    [st EXCEPT !.page = @ + 1, !.at = "cell"]

\* "if card_index < total_cards: c.showPage()", and round the while loop
show_page(st) ==
    [st EXCEPT !.page = @ + 1, !.row = 0, !.col = 0, !.at = "cell"]

\* the while loop ends; c.save() closes the page being drawn and writes the file
save_pdf(st) ==
    [st EXCEPT !.pdf_pages = st.page + 1, !.at = "saved"]

\* one step of the loops of create_pdf
create_pdf_step(st) ==
    IF st.at = "cell"
    THEN (IF st.card_index < Len(st.pdf_cards) THEN draw_card(st) ELSE break_rows(st))
    ELSE (IF st.card_index < Len(st.pdf_cards) THEN show_page(st) ELSE save_pdf(st))

RECURSIVE create_pdf_run(_)
create_pdf_run(st) ==
    IF st.at = "saved" THEN st ELSE create_pdf_run(create_pdf_step(st))

\* create_pdf(cards, output_path), from the first cell to c.save()
create_pdf(the_cards) == create_pdf_run(pdf_start(the_cards))

\* the locals of create_pdf, as the variables hold them
PdfState ==
    [pdf_cards |-> pdf_cards, card_index |-> card_index, row |-> row, col |-> col,
     page |-> page, drawn |-> drawn, pdf_pages |-> pdf_pages,
     at |-> IF pc = "pdf_cell" THEN "cell"
            ELSE IF pc = "pdf_page_end" THEN "page_end" ELSE "saved"]

SetPdfState(st) ==
    /\ pdf_cards' = st.pdf_cards
    /\ card_index' = st.card_index
    /\ row' = st.row
    /\ col' = st.col
    /\ page' = st.page
    /\ drawn' = st.drawn
    /\ pdf_pages' = st.pdf_pages

\* CLI, after the loop: exit(1) on an empty list, else create_pdf
FinishCli ==
    /\ frontend = "cli"
    /\ pc = "loop"
    /\ idx > Len(card_entries)
    /\ IF card_images = <<>>
       THEN /\ status' = "no_cards_processed"
            /\ pc' = "exit1"
            /\ UNCHANGED pdfVars
       ELSE /\ SetPdfState(create_pdf(card_images))
            /\ status' = "created"
            /\ pc' = "done"
    /\ UNCHANGED <<frontend, csvVars, imgVars, keyVars, parseVars, card_entries, use_cache, idx, reqVars,
                   cache, card_images, errors, log, results, export_btn, fetch_btn>>

\* GUI, after the loop: fetch_complete(total, len(errors), errors)
fetch_complete ==
    /\ frontend = "gui"
    /\ pc = "loop"
    /\ idx > Len(card_entries)
    /\ fetch_btn' = TRUE
    /\ export_btn' = IF card_images # <<>> THEN TRUE ELSE export_btn
    /\ status' = IF Len(errors) > 0 THEN "completed_with_errors"
                 ELSE "successfully_fetched"
    /\ pc' = "ready"
    /\ UNCHANGED <<frontend, csvVars, imgVars, keyVars, parseVars, pdfVars, card_entries, use_cache, idx, reqVars,
                   cache, card_images, errors, log, results>>

\* GUI: the Export PDF button, with a file chosen in the dialog
export_pdf ==
    /\ frontend = "gui"
    /\ pc = "ready"
    /\ export_btn
    /\ IF card_images = <<>>
       THEN /\ status' = "no_cards_to_export"
            /\ UNCHANGED pdfVars
       ELSE /\ SetPdfState(create_pdf(card_images))
            /\ status' = "pdf_saved"
    /\ UNCHANGED <<frontend, csvVars, imgVars, keyVars, parseVars, card_entries, use_cache, idx, reqVars,
                   cache, card_images, errors, log, results, export_btn, fetch_btn, pc>>

\* create_pdf step by step: the loop body
DrawCard ==
    /\ pc = "pdf_cell"
    /\ card_index < Len(pdf_cards)
    /\ SetPdfState(draw_card(PdfState))
    /\ pc' = IF draw_card(PdfState).at = "page_end" THEN "pdf_page_end" ELSE "pdf_cell"
    /\ UNCHANGED <<frontend, csvVars, imgVars, keyVars, parseVars, runVarsButPc>>

\* create_pdf step by step: the breaks out of the row loops
BreakRows ==
    /\ pc = "pdf_cell"
    /\ card_index >= Len(pdf_cards)
    /\ SetPdfState(break_rows(PdfState))
    /\ pc' = "pdf_page_end"
    /\ UNCHANGED <<frontend, csvVars, imgVars, keyVars, parseVars, runVarsButPc>>

\* create_pdf step by step: the page break
ShowPage ==
    /\ pc = "pdf_page_end"
    /\ card_index < Len(pdf_cards)
    /\ SetPdfState(show_page(PdfState))
    /\ pc' = "pdf_cell"
    /\ UNCHANGED <<frontend, csvVars, imgVars, keyVars, parseVars, runVarsButPc>>

\* create_pdf step by step: c.save()
SavePdf ==
    /\ pc = "pdf_page_end"
    /\ card_index >= Len(pdf_cards)
    /\ SetPdfState(save_pdf(PdfState))
    /\ pc' = IF frontend = "gui" THEN "ready" ELSE "done"
    /\ status' = IF frontend = "gui" THEN "pdf_saved" ELSE "created"
    /\ UNCHANGED <<frontend, csvVars, imgVars, keyVars, parseVars, card_entries, use_cache, idx, reqVars, cache,
                   card_images, errors, log, results, export_btn, fetch_btn>>

(***************************************************************************)
(* Specifications                                                          *)
(***************************************************************************)
\* a whole run of either front end, from the parsed requests to the document
Init ==
    /\ frontend \in {"cli", "gui"}
    /\ ParseIdle
    /\ RunInit
    /\ PdfIdle
    /\ CsvIdle
    /\ ImgIdle
    /\ KeysIdle

Next ==
    \/ BeginRequest
    \/ FetchBySet
    \/ FetchByName
    \/ ChooseImage
    \/ Download
    \/ Resize
    \/ AppendCopy
    \/ EndRequest
    \/ FinishCli
    \/ fetch_complete
    \/ export_pdf

Spec == Init /\ [][Next]_vars

\* create_pdf alone, on every list of 1..MaxCards cards and at every dpi
MaxCards == 20

LayoutInit ==
    /\ pdf_cards \in { [k \in 1..n |-> [name |-> <<"c">>, img |-> k]] : n \in 1..MaxCards }
    /\ card_index = 0
    /\ row = 0
    /\ col = 0
    /\ page = 0
    /\ drawn = <<>>
    /\ pdf_pages = 0

InitLayout ==
    /\ frontend \in {"cli", "gui"}
    /\ ParseIdle
    /\ card_entries = <<>>
    /\ use_cache = TRUE
    /\ pc = "pdf_cell"
    /\ idx = 1
    /\ ReqIdle
    /\ cache = <<>>
    /\ card_images = <<>>
    /\ errors = <<>>
    /\ log = <<>>
    /\ results = <<>>
    /\ status = "none"
    /\ export_btn = FALSE
    /\ fetch_btn = FALSE
    /\ LayoutInit
    /\ CsvIdle
    /\ img_size = <<1, 1>>
    /\ dpi \in DpiValues(frontend)
    /\ resized = [done |-> FALSE]
    /\ KeysIdle

NextLayout == DrawCard \/ BreakRows \/ ShowPage \/ SavePdf

SpecLayout == InitLayout /\ [][NextLayout]_vars

(***************************************************************************)
(* The GUI: the buttons on the main thread and the fetch worker thread     *)
(***************************************************************************)
\* MTGProxyGUI.parse_decklist on the lines of the text area
RECURSIVE parse_decklist(_)
parse_decklist(text) ==
    IF text = <<>> THEN <<>>
    ELSE LET r == parse_card_entry_gui(text[Len(text)])
         IN  parse_decklist(SubSeq(text, 1, Len(text) - 1)) \o
             (IF Truthy(r.name) THEN <<r>> ELSE <<>>)

\* clear_preview mutated: the image list is left as it is
clear_preview_keep(images) == images

\* what clear_preview makes of self.card_images: card_images.clear()
clear_preview(images) == <<>>

MaxGuiLines == 1

\* the decklists typed in the text area
GuiLineSet ==
    { <<"2", " ", "B", "o">>,
      <<"1", " ", "s", " ", "r", " ", "(", "M", "3", ")", " ", "5">>,
      <<"#", " ", "c">> }

\* the Fetch Cards button: parse, clear the preview, start the worker thread
fetch_cards ==
    /\ frontend = "gui"
    /\ fetch_btn
    /\ LET entries == parse_decklist(decklist_text)
       IN  IF entries = <<>>
           THEN /\ status' = "no_cards_warning"
                /\ UNCHANGED <<card_entries, pc, idx, reqVars, card_images, errors,
                               log, results, export_btn, fetch_btn>>
           ELSE /\ card_entries' = entries
                /\ card_images' = clear_preview(card_images)
                /\ export_btn' = FALSE
                /\ fetch_btn' = FALSE
                /\ status' = "fetching_cards"
                /\ pc' = "loop"
                /\ idx' = 1
                /\ errors' = <<>>
                /\ results' = <<>>
                /\ log' = <<>>
                /\ UNCHANGED reqVars
    /\ UNCHANGED <<frontend, parseVars, pdfVars, csvVars, imgVars, keyVars,
                   use_cache, cache>>

\* the Clear button, which is never disabled: the text area is emptied and
\* clear_preview empties self.card_images, whatever the worker is doing
clear_decklist ==
    /\ frontend = "gui"
    /\ decklist_text' = <<>>
    /\ card_images' = clear_preview(card_images)
    /\ export_btn' = FALSE
    /\ status' = "decklist_cleared"
    /\ UNCHANGED <<frontend, parseVars, pdfVars, imgVars, keyVars,
                   csv_header, csv_rows, csv_pos, csv_cards, csv_status,
                   card_entries, use_cache, pc, idx, reqVars, cache,
                   errors, log, results, fetch_btn>>

InitGui ==
    /\ frontend = "gui"
    /\ ParseIdle
    /\ PdfIdle
    /\ ImgIdle
    /\ KeysIdle
    /\ csv_header = <<>>
    /\ csv_rows = <<>>
    /\ csv_pos = 1
    /\ csv_cards = <<>>
    /\ csv_status = "none"
    /\ decklist_text \in SeqsUpTo(GuiLineSet, MaxGuiLines)
    /\ card_entries = <<>>
    /\ use_cache = TRUE
    /\ pc = "idle"
    /\ idx = 1
    /\ ReqIdle
    /\ cache = <<>>
    /\ card_images = <<>>
    /\ errors = <<>>
    /\ log = <<>>
    /\ results = <<>>
    /\ status = "ready"
    /\ export_btn = FALSE
    /\ fetch_btn = TRUE

\* the main thread runs one handler at a time; the worker's steps fall
\* anywhere between them
NextGui ==
    \/ fetch_cards
    \/ clear_decklist
    \/ export_pdf
    \/ fetch_complete
    \/ BeginRequest
    \/ FetchBySet
    \/ FetchByName
    \/ ChooseImage
    \/ Download
    \/ Resize
    \/ AppendCopy
    \/ EndRequest

SpecGui == InitGui /\ [][NextGui]_vars

(***************************************************************************)
(* Properties                                                              *)
(***************************************************************************)
Last(q) == q[Len(q)]

\* n copies of x
Copies(x, n) == [k \in 1..n |-> x]

\* the requests among the first k finished ones that failed
Failed(k) == { i \in 1..k : results[i].stage \in {"not_found", "no_image", "download"} }

\* what the first k finished requests should have put in the layout input
RECURSIVE ExpectedImages(_)
ExpectedImages(k) ==
    IF k = 0 THEN <<>>
    ELSE ExpectedImages(k - 1) \o
         (IF results[k].stage = "ok"
          THEN Copies([name |-> results[k].name, img |-> results[k].img],
                      card_entries[k].quantity)
          ELSE <<>>)

\* the quantities of the first k finished requests that succeeded, added up
RECURSIVE OkQuantity(_)
OkQuantity(k) ==
    IF k = 0 THEN 0
    ELSE OkQuantity(k - 1) +
         (IF results[k].stage = "ok" /\ card_entries[k].quantity > 0
          THEN card_entries[k].quantity ELSE 0)

\* the run reached its completion step
RunComplete == pc \in {"exit1", "ready", "done"}

\* C1: create_pdf on N cards emits ceil(N / 9) pages, draws every card, and
\* no two cards drawn share (page, row, column).
C1_PagesAndDistinctCells ==
    /\ pdf_pages > 0 =>
         /\ pdf_pages = (Len(pdf_cards) + 8) \div 9
         /\ Len(drawn) = Len(pdf_cards)
    /\ \A i, j \in DOMAIN drawn :
         i # j => <<drawn[i].page, drawn[i].row, drawn[i].col>>
                  # <<drawn[j].page, drawn[j].row, drawn[j].col>>

\* C1 witness: ten cards saved as two pages, nine on page 0 and one on page 1
C1_Witness ==
    /\ Len(pdf_cards) = 10
    /\ pdf_pages = 2
    /\ Cardinality({i \in DOMAIN drawn : drawn[i].page = 0}) = 9
    /\ Cardinality({i \in DOMAIN drawn : drawn[i].page = 1}) = 1

\* C2: the layout input is, in decklist order, quantity copies of the one
\* image of every request that was resolved, downloaded and normalised.
C2_LayoutInputIsExpansion ==
    card_images =
        ExpectedImages(Len(results)) \o
        (IF pc = "append"
         THEN Copies([name |-> actual_name, img |-> pdf_image], copies)
         ELSE <<>>)

\* C2 witness: a finished run of two successful requests, the first of
\* quantity 2, with different images
C2_Witness ==
    /\ RunComplete
    /\ Len(results) = 2
    /\ results[1].stage = "ok" /\ results[2].stage = "ok"
    /\ card_entries[1].quantity = 2 /\ card_entries[2].quantity = 1
    /\ results[1].img # results[2].img
    /\ Len(card_images) = 3

\* C3: a request whose catalogue lookups all failed is in the error list under
\* the name it was requested by, and the layout input holds nothing for it.
C3_NotFoundReported ==
    /\ \A i \in DOMAIN results :
         results[i].stage = "not_found" =>
           /\ Cardinality(Failed(i)) <= Len(errors)
           /\ errors[Cardinality(Failed(i))] = card_entries[i].name
    /\ Len(card_images) =
         OkQuantity(Len(results)) + (IF pc = "append" THEN copies ELSE 0)

\* C3 witness: a finished GUI run whose second request had a printing and
\* failed both the printing lookup and the name lookup
C3_Witness ==
    /\ RunComplete
    /\ Len(results) = 2
    /\ results[1].stage = "ok"
    /\ results[2].stage = "not_found"
    /\ \E k \in DOMAIN log : log[k][1] = "by_set"
    /\ card_entries[1].name # card_entries[2].name
    /\ errors = <<card_entries[2].name>>

\* C4 as claimed: no failure of a request stops the run, and (in the GUI, which
\* keeps the error list) every failed request is in the list under the name it
\* was requested by.
C4_FailuresRecordedRunGoesOn ==
    /\ pc # "crashed"
    /\ frontend = "gui" =>
         /\ Len(errors) = Cardinality(Failed(Len(results)))
         /\ \A i \in Failed(Len(results)) :
              errors[Cardinality(Failed(i))] = card_entries[i].name

\* C5 as claimed: a run that ends with an empty layout input ends in an
\* explicit failure, and no document is made from an empty list.
C5_EmptyRunFails ==
    /\ (RunComplete /\ card_images = <<>>) =>
          status \in {"no_cards_processed", "completed_with_errors"}
    /\ pdf_pages > 0 => pdf_cards # <<>>

\* the cache file download_image is about to be asked for
CurrentFile ==
    IF frontend = "gui" THEN cache_filename(actual_name, actual_set, actual_num)
    ELSE cache_filename(actual_name, None, None)
CacheEnabled == frontend = "gui" \/ use_cache

\* C6: with the cache enabled, download_image for a file the cache holds makes
\* no network request, leaves the cache as it is and returns that file,
\* whatever the network would answer.
C6_CacheHitNoFetch ==
    [][ (pc = "download" /\ CacheEnabled /\ CurrentFile \in DOMAIN cache) =>
          /\ log' = log
          /\ cache' = cache
          /\ image_path' = CurrentFile
          /\ pc' = "resize" ]_vars

\* C6 witness: the second request of a run is served from the file the
\* first request downloaded, with no second artwork request
C6_Witness ==
    /\ pc = "resize"
    /\ idx = 2
    /\ results[1].stage = "ok"
    /\ Cardinality({k \in DOMAIN log : log[k][1] = "get"}) = 1
    /\ results[1].img = resize_card_image(cache, image_path)
    /\ cache[image_path] # StaleBody

\* C7: an artwork request that fails makes download_image return None (the
\* request is recorded as a download failure) and leaves the cache unchanged.
C7_FailedFetchLeavesCache ==
    [][ (pc = "download" /\ Len(log') > Len(log) /\ Last(log')[3] = "fail") =>
          /\ cache' = cache
          /\ image_path' = None
          /\ Len(results') = Len(results) + 1
          /\ Last(results').stage = "download" ]_vars

\* C7 witness: force-refetch (CLI --no-cache): the second request asks again
\* for the artwork the first one stored, the request fails, the file stays
C7_Witness ==
    /\ frontend = "cli" /\ ~use_cache
    /\ Len(results) = 2
    /\ results[1].stage = "ok" /\ results[2].stage = "download"
    /\ Cardinality(DOMAIN cache) = 1
    /\ \E k \in DOMAIN log : log[k][1] = "get" /\ log[k][3] = "image"
                             /\ Last(log)[1] = "get" /\ Last(log)[2] = log[k][2]
    /\ \A f \in DOMAIN cache : results[1].img.src = cache[f] /\ cache[f] # StaleBody

\* a line the claims say yields no request
IsBlank(line) == strip(line) = <<>>
IsComment(line) == ~IsBlank(line) /\ strip(line)[1] = "#"
IsSectionHeader(line) ==
    \E label \in MOXFIELD_SECTIONS :
        lower(strip(line)) \in {label, label \o <<":">>}
Skipped(line) == IsBlank(line) \/ IsComment(line) \/ IsSectionHeader(line)

\* C8 as claimed: the parsing loop has appended exactly one request for every
\* line read so far that is not blank, not a comment and not a section header.
C8_OneRequestPerCardLine ==
    Len(cards) = Cardinality({ i \in 1..(pos - 1) : ~Skipped(lines[i]) })

\* the printing-qualified line "<n>[x] <name> (<SET>) <num>[ *F*]"
PrintingLine(n, x, name, SET, num, foil) ==
    n \o (IF x THEN <<"x">> ELSE <<>>) \o <<" ">> \o name \o <<" ", "(">> \o SET
      \o <<")", " ">> \o num \o (IF foil THEN <<" ", "*", "F", "*">> ELSE <<>>)

\* C9 as claimed: a printing-qualified line parses to its quantity, its name
\* without the suffix, its set code lower-cased and its number as written.
C9_PrintingLineParsed ==
    \A n \in {<<"1">>, <<"2">>, <<"4">>}, x \in BOOLEAN,
       name \in {<<"B","o">>, <<"S"," ","R">>},
       SET \in {<<"M","H","3">>, <<"m","3">>},
       num \in {<<"5","3","2">>, <<"1","a">>}, foil \in BOOLEAN :
        (pos > 1 /\ lines[pos - 1] = PrintingLine(n, x, name, SET, num, foil)) =>
            parsed = Entry(name, int(n), lower(SET), num)

\* C10 as claimed: every request the parser produced has quantity >= 1.
C10_QuantityAtLeastOne ==
    \A k \in DOMAIN cards : cards[k].quantity >= 1

\* a row with every column of the header, a name and a count that int() reads
WellFormedRow(header, fields) ==
    /\ Len(fields) >= Len(header)
    /\ strip(fields[ColumnOf(header, "Name")]) # <<>>
    /\ py_int(fields[1]).ok

\* the tuples of the well-formed rows among the first k, in order
RECURSIVE ExpectedCsvCards(_)
ExpectedCsvCards(k) ==
    IF k = 0 THEN <<>>
    ELSE ExpectedCsvCards(k - 1) \o
         (IF WellFormedRow(csv_header, csv_rows[k])
          THEN <<parse_csv_row(DictRow(csv_header, csv_rows[k])).entry>>
          ELSE <<>>)

\* C11: a malformed row of the tabular import (a count that is no number, or
\* fewer fields than the header) is skipped alone: the import does not fail,
\* and it returns the well-formed rows before and after it, in order.
C11_MalformedRowSkippedAlone ==
    /\ csv_status # "failed_to_load"
    /\ csv_status \in {"loaded", "no_cards_found"} =>
          csv_cards = ExpectedCsvCards(Len(csv_rows))

\* C12: for every dpi > 0 and every source size, resize_card_image returns an
\* image of exactly 2.5 * dpi by 3.5 * dpi pixels, and the scaled image covers
\* the target box, so that no crop offset is negative.
C12_ExactSizeAndCover ==
    resized.done =>
        /\ 2 * resized.width = 5 * dpi
        /\ 2 * resized.height = 7 * dpi
        /\ resized.new_width >= target_width(dpi)
        /\ resized.new_height >= target_height(dpi)
        /\ resized.left >= 0
        /\ resized.top >= 0

\* C13: placement is row-major: the k-th image (0-based) of the layout input
\* is drawn on page k div 9, at row (k mod 9) div 3 and column k mod 3.
C13_RowMajorPlacement ==
    \A i \in DOMAIN drawn :
        /\ drawn[i].card = pdf_cards[i]
        /\ drawn[i].page = (i - 1) \div CARDS_PER_PAGE
        /\ drawn[i].row = ((i - 1) % CARDS_PER_PAGE) \div CARDS_PER_ROW
        /\ drawn[i].col = (i - 1) % CARDS_PER_ROW

\* C13 witness: fourteen cards drawn, the tenth first on the second page and
\* the fourteenth in the middle of its second row
C13_Witness ==
    /\ Len(drawn) = 14
    /\ <<drawn[9].page, drawn[9].row, drawn[9].col>> = <<0, 2, 2>>
    /\ <<drawn[10].page, drawn[10].row, drawn[10].col>> = <<1, 0, 0>>
    /\ <<drawn[14].page, drawn[14].row, drawn[14].col>> = <<1, 1, 1>>

\* the request a log entry belongs to: one sleep opens each request
LogRequest(i) == Cardinality({k \in 1..i : log[k][1] = "sleep"})
\* the request carries a printing
HasPrinting(e) == Truthy(e.set_code) /\ Truthy(e.collector_num)
\* the catalogue lookups made for request k, in order of the log
LookupsOf(k) ==
    {i \in DOMAIN log : log[i][1] \in {"by_set", "by_name"} /\ LogRequest(i) = k}
\* whether the lookup of a log entry found a card
Found(entry) == entry[Len(entry)]

\* C14: a request with a printing is looked up by set and collector number
\* first and by name only if that failed; a request without one is looked up by
\* name only; a request is reported not found only after all of these failed.
C14_LookupOrder ==
    /\ \A i \in DOMAIN log :
         LET req == card_entries[LogRequest(i)]
         IN  /\ log[i][1] = "by_set" =>
                   /\ i > 1 /\ log[i - 1][1] = "sleep"
                   /\ HasPrinting(req)
                   /\ log[i][2] = req.set_code /\ log[i][3] = req.collector_num
             /\ log[i][1] = "by_name" =>
                   /\ i > 1 /\ log[i][2] = req.name
                   /\ IF HasPrinting(req)
                      THEN log[i - 1][1] = "by_set" /\ ~Found(log[i - 1])
                      ELSE log[i - 1][1] = "sleep"
             /\ (log[i][1] = "sleep" /\ i < Len(log)) =>
                   log[i + 1][1] = IF HasPrinting(req) THEN "by_set" ELSE "by_name"
    /\ \A k \in DOMAIN results :
         results[k].stage = "not_found" =>
           /\ \A i \in LookupsOf(k) : ~Found(log[i])
           /\ \E i \in LookupsOf(k) : log[i][1] = "by_name"
           /\ HasPrinting(card_entries[k]) => \E i \in LookupsOf(k) : log[i][1] = "by_set"

\* C14 witness: a finished run of two requests with a printing: the first was
\* found by name after its printing lookup failed, the second by its printing
\* lookup alone
C14_Witness ==
    /\ RunComplete
    /\ Len(results) = 2
    /\ results[1].stage = "ok" /\ results[2].stage = "ok"
    /\ HasPrinting(card_entries[1]) /\ HasPrinting(card_entries[2])
    /\ {log[i][1] : i \in LookupsOf(1)} = {"by_set", "by_name"}
    /\ \E i \in LookupsOf(1) : log[i][1] = "by_set" /\ ~Found(log[i])
    /\ {log[i][1] : i \in LookupsOf(2)} = {"by_set"}

\* the rendition the precedence png, large, normal picks from image_uris
PngLargeNormal(image_uris) ==
    IF Has(image_uris, "png") THEN image_uris.png
    ELSE IF Has(image_uris, "large") THEN image_uris.large
    ELSE IF Has(image_uris, "normal") THEN image_uris.normal
    ELSE None

\* the artwork reference the claim gives a card: from its own renditions, or
\* from those of its first face
ClaimedImageUrl(card) ==
    IF Has(card, "image_uris") /\ PngLargeNormal(card.image_uris) # None
    THEN PngLargeNormal(card.image_uris)
    ELSE IF Has(card, "card_faces") /\ Len(card.card_faces) > 0
            /\ Has(card.card_faces[1], "image_uris")
    THEN PngLargeNormal(card.card_faces[1].image_uris)
    ELSE None

\* C15 as claimed: the artwork reference chosen for a card is its first
\* rendition in the order png, large, normal, taken from the card or from its
\* first face.
C15_RenditionPrecedence ==
    pc \in {"download", "resize", "append"} => image_url = ClaimedImageUrl(card_data)

\* C16 as claimed: within one run, a cache file that was fetched and
\* normalised is not fetched from the network again and not normalised again.
C16_NoRefetchNoRenormalise ==
    \A i, j \in DOMAIN log :
        (i < j /\ log[i][1] = "resize") =>
            /\ ~(log[j][1] = "get" /\ log[j][4] = log[i][2])
            /\ ~(log[j][1] = "resize" /\ log[j][2] = log[i][2])

\* the printing of a resolved card is known
PrintingKnown(key) == Truthy(key[2]) /\ Truthy(key[3])

\* C17 as claimed: two cards with different (name, set, collector number) and
\* known printings never get the same cache file; two cards of the same
\* name without printing information get the same file.
C17_KeysCollisionSafe ==
    file_a # None =>
        /\ (key_a # key_b /\ PrintingKnown(key_a) /\ PrintingKnown(key_b)) =>
              file_a # file_b
        /\ (key_a[1] = key_b[1] /\ ~PrintingKnown(key_a) /\ ~PrintingKnown(key_b)) =>
              file_a = file_b

\* the log entry is a catalogue query
IsLookup(entry) == entry[1] \in {"by_set", "by_name"}

\* C18 as claimed: the requests are worked through in decklist order, and the
\* pacing delay lies between any two consecutive catalogue queries of a run.
C18_PacedQueriesInOrder ==
    /\ \A i \in DOMAIN log :
         IsLookup(log[i]) =>
            /\ LogRequest(i) \in DOMAIN card_entries
            /\ log[i][1] = "by_name" => log[i][2] = card_entries[LogRequest(i)].name
            /\ log[i][1] = "by_set" => log[i][2] = card_entries[LogRequest(i)].set_code
    /\ \A i, j \in DOMAIN log :
         (i < j /\ IsLookup(log[i]) /\ IsLookup(log[j])) =>
            \E k \in (i + 1)..(j - 1) : log[k][1] = "sleep"

\* two card rectangles share no area
Disjoint(a, b) ==
    \/ a.x + a.width <= b.x
    \/ b.x + b.width <= a.x
    \/ a.y + a.height <= b.y
    \/ b.y + b.height <= a.y

\* C19: whatever the dpi, every card is drawn 180 x 252 pt (2.5in x 3.5in) at
\* a place fixed by its row and column on a grid centred on the 612 x 792 pt
\* page (margins of 36 pt left and right, 18 pt top and bottom), inside the page
\* and clear of the other cards of its page.
C19_PlacementGeometry ==
    /\ \A i \in DOMAIN drawn :
         /\ drawn[i].width = 180 /\ drawn[i].height = 252
         /\ drawn[i].x = 36 + 180 * drawn[i].col
         /\ drawn[i].y = 792 - 18 - 252 * (drawn[i].row + 1)
         /\ drawn[i].x >= 0 /\ drawn[i].x + drawn[i].width <= 612
         /\ drawn[i].y >= 0 /\ drawn[i].y + drawn[i].height <= 792
    /\ \A i, j \in DOMAIN drawn :
         (i # j /\ drawn[i].page = drawn[j].page) => Disjoint(drawn[i], drawn[j])

\* C19 witness: a full page and three more cards laid out by the CLI at a dpi
\* that is not the default, corner cells at the margins
C19_Witness ==
    /\ frontend = "cli" /\ dpi = 131
    /\ Len(drawn) = 12
    /\ <<drawn[1].x, drawn[1].y>> = <<36, 522>>
    /\ <<drawn[9].x + drawn[9].width, drawn[9].y>> = <<612 - 36, 18>>
    /\ drawn[12].page = 1

\* C20 as claimed: when the worker's completion callback runs, the image list
\* is the quantity-expanded images of the fetch's successful requests, in
\* decklist order, whatever the buttons did while the worker ran.
C20_ListIntactAtCompletion ==
    [][ (pc = "loop" /\ pc' = "ready") =>
            card_images = ExpectedImages(Len(results)) ]_vars

====
